---- MODULE Spec2Model ----
(***************************************************************************)
(* State-machine model of the Grid rules engine (Grid.js).                 *)
(*   Spec      the RxJS revision: drag selection, merge resolution on      *)
(*             release, the deferred clearing timer and the animated       *)
(*             column collapse with its join-all completion;               *)
(*   LifeSpec  the same grid with its teardown (destroy) and with tweens   *)
(*             that are killed before they complete;                       *)
(*   PickSpec  the weighted picker on its own;                             *)
(*   GroupSpec the connected-group search of the promise-based revision;   *)
(*   AutoSpec  the auto-merge cascade and the jackpot tap of the           *)
(*             promise-based revision (PassSpec: the cascade alone, with   *)
(*             one of its passes remembered; WideSpec: the cascade alone   *)
(*             on a wider grid).                                           *)
(***************************************************************************)
EXTENDS Integers, Sequences, FiniteSets, TLC

\* ------------------------------------------------------------------ bounds
\* grid dimensions (new Grid(rows, cols))
rows == 3
cols == 1
\* accepted merges stop being started once the score has passed this value
MaxScore == 10
\* deferred-clear timers plus collapses that may be in flight together
MaxInFlight == 2
\* the picker is exercised on up to this many denominations ...
MaxDenoms == 3
\* ... with each supplied weight in 0 .. MaxWeight
MaxWeight == 2
\* dimensions of the grids the group search is exercised on
GroupRows == 3
GroupCols == 3
\* dimensions of the grid the auto-merge cascade runs on
AutoRows == 2
AutoCols == 2
\* dimensions of the wider grid the cascade is also run on
WideRows == 2
WideCols == 3
\* jackpot taps are awarded while the score is below MaxTaps awards
MaxTaps == 1
\* destroy() is called at most this many times
MaxDestroyCalls == 2
\* at most this many tweens are killed before they complete
MaxKilled == 1

\* ------------------------------------------------------- program constants
\* SquareWithText.value of an empty cell
null == -1
\* this.minCollectLen
minCollectLen == 2
\* the value _onTap collects (cell.value === 500, this.score += 500)
gold == 500

\* configurations (options.values, options.weights) the grid is built with;
\* weights are kept as the integers supplied, normalisation divides by their sum
Configs ==
    { [values |-> <<1, 5, 10, 25, 50, 100>>, weights |-> <<0, 1, 1, 0, 0, 0>>],
      [values |-> <<1, 5, 10, 50, 100>>,     weights |-> <<0, 1, 1, 0, 0>>] }

VARIABLES
    values,         \* this.values
    weights,        \* options.weights as supplied
    cells,          \* this._cells[r][c].value
    selection,      \* this._selection, as (r,c) references
    isPointerDown,  \* this._isPointerDown
    interactive,    \* this.interactive
    score,          \* this.score
    dragActive,     \* the switchMap inner pointer-move subscription is alive
    timers,         \* pending setTimeout(..., 220) callbacks, in firing order
    collapses,      \* forkJoin subscriptions of _collapseColumn still running
    released,       \* what the last _onPointerUp call saw and decided
    settled,        \* the last _collapseColumn call that reported completion
    extended,       \* what the last _tryExtendPath call of the gesture was given
    draw,           \* the last Math.random() draw of _pickWeighted, scaled (-1: none)
    picked,         \* what that call of _pickWeighted returned
    gridRows,       \* this.rows of a grid of the promise-based revision
    gridCols,       \* this.cols of that grid
    board,          \* this._cells[r][c].value of that grid
    groups,         \* what its last _findGroups() call returned
    loopPc,         \* where its _autoMergeLoop stands
    mergeQueue,     \* the qualifying groups of the pass not applied yet
    animations,     \* the promises of its running _collapseColumn call
    tapped,         \* its last 'pointertap': the cell, its value, how far it got
    mark,           \* a pass of its cascade remembered for comparison
    inputSubs,      \* this._inputSubs: "subscribed", or "null" after destroy
    destroySubject, \* this._destroy$: "open", or "null" after destroy
    destroyCalls    \* how many times destroy() has been called

vars == <<values, weights, cells, selection, isPointerDown, interactive, score,
          dragActive, timers, collapses, released, settled, extended,
          draw, picked,
          gridRows, gridCols, board, groups, loopPc, mergeQueue, animations,
          tapped, mark,
          inputSubs, destroySubject, destroyCalls>>

\* the state of the grid proper, and of the picker exercised on its own
gridVars == <<cells, selection, isPointerDown, interactive, score, dragActive,
              timers, collapses, released, settled, extended>>
pickerVars == <<draw, picked>>
cascadeVars == <<gridRows, gridCols, board, groups, loopPc, mergeQueue,
                 animations, tapped, mark>>
lifeVars == <<inputSubs, destroySubject, destroyCalls>>

Pos == (0 .. rows - 1) \X (0 .. cols - 1)

\* ---------------------------------------------------------------- helpers
RECURSIVE SeqSum(_)
SeqSum(s) == IF s = <<>> THEN 0 ELSE Head(s) + SeqSum(Tail(s))

Range(s) == { s[i] : i \in 1 .. Len(s) }

Includes(arr, x) == \E i \in 1 .. Len(arr) : arr[i] = x

Abs(x) == IF x < 0 THEN -x ELSE x

RemoveAt(s, i) == SubSeq(s, 1, i - 1) \o SubSeq(s, i + 1, Len(s))

\* Number(v) || 0
NumberOr0(v) == IF v = null THEN 0 ELSE v

\* ---------------------------------------------------------- WeightedPicker
\* weights.length === values.length ? weights.slice() : (n, n-1, ..., 1)
EffectiveWeights(vals, w) ==
    IF Len(w) = Len(vals) THEN w ELSE [i \in 1 .. Len(vals) |-> Len(vals) - i + 1]

\* sumW = reduce(+) || 1
SumW(w) == IF SeqSum(w) = 0 THEN 1 ELSE SeqSum(w)

\* acc after i additions, scaled by sumW
RECURSIVE Acc(_, _)
Acc(w, i) == IF i = 0 THEN 0 ELSE Acc(w, i - 1) + w[i]

\* the for loop of _pickWeighted from index i (1-based) on, acc accumulated so far
RECURSIVE PickScan(_, _, _, _, _)
PickScan(arr, w, R, i, acc) ==
    IF i > Len(w) THEN arr[Len(arr)]
    ELSE IF R <= acc + w[i] THEN arr[i]
    ELSE PickScan(arr, w, R, i + 1, acc + w[i])

\* faulty variant: the scan compares with r < acc instead of r <= acc
RECURSIVE PickScanStrict(_, _, _, _, _)
PickScanStrict(arr, w, R, i, acc) ==
    IF i > Len(w) THEN arr[Len(arr)]
    ELSE IF R < acc + w[i] THEN arr[i]
    ELSE PickScanStrict(arr, w, R, i + 1, acc + w[i])

PickWeightedMutStrictCompare(arr, w, R) ==
    IF Len(arr) = 0 THEN null
    ELSE IF Len(w) # Len(arr) THEN arr[(R % Len(arr)) + 1]
    ELSE PickScanStrict(arr, w, R, 1, 0)

\* _pickWeighted(arr, w).  The draw r in [0,1) is represented scaled by sumW:
\* R = 0 is r = 0, R = k in 1 .. sumW stands for every r with
\* (k-1)/sumW < r <= k/sumW, and R = sumW + 1 for an r that floating-point
\* rounding of the normalised weights leaves above the last cumulative sum.
\* With w of another length than arr the draw selects an index uniformly.
PickWeighted(arr, w, R) ==
    IF Len(arr) = 0 THEN null
    ELSE IF Len(w) # Len(arr) THEN arr[(R % Len(arr)) + 1]
    ELSE PickScan(arr, w, R, 1, 0)

\* every value one call of this._pickWeighted(this.values, this.weights) can
\* return when the normalised weights add up to 1 exactly
Picks ==
    LET w == EffectiveWeights(values, weights)
    IN  { PickWeighted(values, w, R) : R \in 0 .. SumW(w) }

\* no _tryExtendPath call since the gesture began
NoExtend == [path |-> <<>>, cell |-> <<-1, -1>>, base |-> null, cand |-> null]

\* the grid as the constructor leaves it: input streams subscribed, the
\* lifecycle subject open
Alive ==
    /\ inputSubs = "subscribed"
    /\ destroySubject = "open"
    /\ destroyCalls = 0

\* no _collapseColumn call of the promise-based grid is running
NoAnimations == [pending |-> {}, vals |-> <<>>, srcVals |-> <<>>]

\* no 'pointertap' has been delivered
NoTap == [cell |-> <<-1, -1>>, value |-> null, phase |-> "none"]

\* no pass of the cascade has been remembered
NoMark == [set |-> FALSE, board |-> <<>>, queue |-> <<>>]

\* no grid of the promise-based revision has been built
NoCascade ==
    /\ gridRows = 0
    /\ gridCols = 0
    /\ board = <<>>
    /\ groups = <<>>
    /\ loopPc = "idle"
    /\ mergeQueue = <<>>
    /\ animations = NoAnimations
    /\ tapped = NoTap
    /\ mark = NoMark

\* ------------------------------------------------------------ construction
\* constructor: every cell gets this._pickWeighted(this.values, this.weights)
Init ==
    /\ \E cfg \in Configs : values = cfg.values /\ weights = cfg.weights
    /\ cells \in [Pos -> Picks]
    /\ selection = <<>>
    /\ isPointerDown = FALSE
    /\ interactive = TRUE
    /\ score = 0
    /\ dragActive = FALSE
    /\ timers = <<>>
    /\ collapses = <<>>
    /\ released = [kind |-> "none", vals |-> <<>>, resultValue |-> null]
    /\ settled = [done |-> FALSE, alone |-> FALSE, ops |-> 0,
                  srcVals |-> [p \in Pos |-> null]]
    /\ extended = NoExtend
    /\ draw = -1
    /\ picked = null
    /\ Alive
    /\ NoCascade

\* ---------------------------------------------------------- MergeResolver
\* sel.reduce((acc, s) => acc + (Number(s.cell.value) || 0), 0)
SelSum(vals) == SeqSum([i \in 1 .. Len(vals) |-> NumberOr0(vals[i])])

\* faulty variant: the sum must be a denomination, no 5/10 special case
ResultValueMutNoSpecialCase(vals, allowed) ==
    LET sum == SelSum(vals)
    IN  IF Includes(allowed, sum) THEN sum ELSE null

\* resultValue of _onPointerUp for the values of the selected cells
ResultValue(vals, allowed) ==
    LET sum   == SelSum(vals)
        has5  == \E i \in 1 .. Len(vals) : vals[i] = 5
        has10 == \E i \in 1 .. Len(vals) : vals[i] = 10
    IN  IF Includes(allowed, sum) THEN sum
        ELSE IF sum = 25 /\ has5 /\ has10 THEN 25
        ELSE null

\* faulty variant: a release that is too short awards the value under it
ShortReleaseMutAwards(sel, vals) ==
    /\ selection' = <<>>
    /\ released' = [kind |-> "short", vals |-> vals, resultValue |-> null]
    /\ score' = NumberOr0(score) + SelSum(vals)
    /\ UNCHANGED <<cells, timers>>

\* _onPointerUp, selection shorter than minCollectLen: un-highlight and clear
ShortRelease(sel, vals) ==
    /\ selection' = <<>>
    /\ released' = [kind |-> "short", vals |-> vals, resultValue |-> null]
    /\ UNCHANGED <<cells, score, timers>>

\* faulty variant: a rejected release leaves the path selected
RejectReleaseMutKeepsPath(sel, vals) ==
    /\ selection' = sel
    /\ released' = [kind |-> "rejected", vals |-> vals, resultValue |-> null]
    /\ UNCHANGED <<cells, score, timers>>

\* _onPointerUp, resultValue == null: shake the target, clear the selection
RejectRelease(sel, vals) ==
    /\ selection' = <<>>
    /\ released' = [kind |-> "rejected", vals |-> vals, resultValue |-> null]
    /\ UNCHANGED <<cells, score, timers>>

\* faulty variant: the first cell of the path is taken as the target
AcceptReleaseMutFirstIsTarget(sel, vals, rv) ==
    /\ score' = NumberOr0(score) + rv
    /\ cells' = [cells EXCEPT ![sel[1]] = rv]
    /\ timers' = Append(timers, sel)
    /\ selection' = sel
    /\ released' = [kind |-> "accepted", vals |-> vals, resultValue |-> rv]

\* _onPointerUp, accepted: add to the score, upgrade the target (the last
\* cell of the path) and schedule the deferred clearing; this._selection is
\* left as it is until the timer runs
AcceptRelease(sel, vals, rv) ==
    /\ score' = NumberOr0(score) + rv
    /\ cells' = [cells EXCEPT ![sel[Len(sel)]] = rv]
    /\ timers' = Append(timers, sel)
    /\ selection' = sel
    /\ released' = [kind |-> "accepted", vals |-> vals, resultValue |-> rv]

\* faulty variant: the special case is taken as the comment words it,
\* '5 + 10 (sum 15) should produce 25'
OnPointerUpMutFifteen(ipd, sel) ==
    LET vals == [i \in 1 .. Len(sel) |-> cells[sel[i]]]
        sum  == SelSum(vals)
        rv   == IF Includes(values, sum) THEN sum
                ELSE IF sum = 15 /\ (\E i \in 1 .. Len(vals) : vals[i] = 5)
                                 /\ (\E i \in 1 .. Len(vals) : vals[i] = 10)
                     THEN 25
                ELSE null
    IN  IF ~ipd
        THEN /\ isPointerDown' = ipd
             /\ selection' = sel
             /\ released' = [kind |-> "ignored", vals |-> <<>>, resultValue |-> null]
             /\ UNCHANGED <<cells, score, timers>>
        ELSE /\ isPointerDown' = FALSE
             /\ IF Len(sel) >= minCollectLen
                THEN IF rv = null
                     THEN RejectRelease(sel, vals)
                     ELSE AcceptRelease(sel, vals, rv)
                ELSE ShortRelease(sel, vals)

\* _onPointerUp, called with this._isPointerDown = ipd and this._selection = sel
OnPointerUp(ipd, sel) ==
    LET vals == [i \in 1 .. Len(sel) |-> cells[sel[i]]]
        rv   == ResultValue(vals, values)
    IN  IF ~ipd
        THEN /\ isPointerDown' = ipd
             /\ selection' = sel
             /\ released' = [kind |-> "ignored", vals |-> <<>>, resultValue |-> null]
             /\ UNCHANGED <<cells, score, timers>>
        ELSE /\ isPointerDown' = FALSE
             /\ IF Len(sel) >= minCollectLen
                THEN IF rv = null
                     THEN RejectRelease(sel, vals)
                     ELSE AcceptRelease(sel, vals, rv)
                ELSE ShortRelease(sel, vals)

\* ------------------------------------------------------- SelectionTracker
\* _isAdjacent
IsAdjacent(p, q) == Abs(p[1] - q[1]) + Abs(p[2] - q[2]) = 1

\* faulty variant: the check for a cell already in the path is missing
TryExtendPathMutNoDuplicateCheck(sel, p) ==
    LET n              == Len(sel)
        baseValue      == NumberOr0(cells[sel[1]])
        candidateValue == NumberOr0(cells[p])
        allowMix5and10 == baseValue \in {5, 10} /\ candidateValue \in {5, 10}
    IN  IF n = 0 THEN sel
        ELSE IF n >= 2 /\ sel[n - 1] = p THEN SubSeq(sel, 1, n - 1)
        ELSE IF cells[p] = null THEN sel
        ELSE IF ~(candidateValue = baseValue \/ allowMix5and10) THEN sel
        ELSE IF ~(\E i \in 1 .. n : IsAdjacent(sel[i], p)) THEN sel
        ELSE Append(sel, p)

\* faulty variant: the backtrack test looks at the last entry instead of the
\* second-to-last
TryExtendPathMutBacktrackOnLast(sel, p) ==
    LET n              == Len(sel)
        baseValue      == NumberOr0(cells[sel[1]])
        candidateValue == NumberOr0(cells[p])
        allowMix5and10 == baseValue \in {5, 10} /\ candidateValue \in {5, 10}
    IN  IF n = 0 THEN sel
        ELSE IF n >= 2 /\ sel[n] = p THEN SubSeq(sel, 1, n - 1)
        ELSE IF \E i \in 1 .. n : sel[i] = p THEN sel
        ELSE IF cells[p] = null THEN sel
        ELSE IF ~(candidateValue = baseValue \/ allowMix5and10) THEN sel
        ELSE IF ~(\E i \in 1 .. n : IsAdjacent(sel[i], p)) THEN sel
        ELSE Append(sel, p)

\* faulty variant: the candidate must be adjacent to the last entry of the path
TryExtendPathMutAdjacentToLast(sel, p) ==
    LET n              == Len(sel)
        baseValue      == NumberOr0(cells[sel[1]])
        candidateValue == NumberOr0(cells[p])
        allowMix5and10 == baseValue \in {5, 10} /\ candidateValue \in {5, 10}
    IN  IF n = 0 THEN sel
        ELSE IF n >= 2 /\ sel[n - 1] = p THEN SubSeq(sel, 1, n - 1)
        ELSE IF \E i \in 1 .. n : sel[i] = p THEN sel
        ELSE IF cells[p] = null THEN sel
        ELSE IF ~(candidateValue = baseValue \/ allowMix5and10) THEN sel
        ELSE IF ~(IsAdjacent(sel[n], p)) THEN sel
        ELSE Append(sel, p)

\* faulty variant: the value comparison with the first cell is missing
TryExtendPathMutNoValueCheck(sel, p) ==
    LET n              == Len(sel)
        baseValue      == NumberOr0(cells[sel[1]])
        candidateValue == NumberOr0(cells[p])
        allowMix5and10 == baseValue \in {5, 10} /\ candidateValue \in {5, 10}
    IN  IF n = 0 THEN sel
        ELSE IF n >= 2 /\ sel[n - 1] = p THEN SubSeq(sel, 1, n - 1)
        ELSE IF \E i \in 1 .. n : sel[i] = p THEN sel
        ELSE IF cells[p] = null THEN sel
        ELSE IF ~(\E i \in 1 .. n : IsAdjacent(sel[i], p)) THEN sel
        ELSE Append(sel, p)

\* faulty variant: the adjacency test is missing
TryExtendPathMutNoAdjacency(sel, p) ==
    LET n              == Len(sel)
        baseValue      == NumberOr0(cells[sel[1]])
        candidateValue == NumberOr0(cells[p])
        allowMix5and10 == baseValue \in {5, 10} /\ candidateValue \in {5, 10}
    IN  IF n = 0 THEN sel
        ELSE IF n >= 2 /\ sel[n - 1] = p THEN SubSeq(sel, 1, n - 1)
        ELSE IF \E i \in 1 .. n : sel[i] = p THEN sel
        ELSE IF cells[p] = null THEN sel
        ELSE IF ~(candidateValue = baseValue \/ allowMix5and10) THEN sel
        ELSE IF ~(TRUE) THEN sel
        ELSE Append(sel, p)

\* _tryExtendPath: the selection after the call
TryExtendPath(sel, p) ==
    LET n              == Len(sel)
        baseValue      == NumberOr0(cells[sel[1]])
        candidateValue == NumberOr0(cells[p])
        allowMix5and10 == baseValue \in {5, 10} /\ candidateValue \in {5, 10}
    IN  IF n = 0 THEN sel
        ELSE IF n >= 2 /\ sel[n - 1] = p THEN SubSeq(sel, 1, n - 1)
        ELSE IF \E i \in 1 .. n : sel[i] = p THEN sel
        ELSE IF cells[p] = null THEN sel
        ELSE IF ~(candidateValue = baseValue \/ allowMix5and10) THEN sel
        ELSE IF ~(\E i \in 1 .. n : IsAdjacent(sel[i], p)) THEN sel
        ELSE Append(sel, p)

\* ------------------------------------------------------------ input events
InFlight == Len(timers) + Len(collapses)

\* faulty variant: the running inner stream is dropped (finalize ->
\* _onPointerUp) before the tap replaces the selection
PointerDownMutFinalizeFirst(p) ==
    /\ inputSubs = "subscribed"
    /\ interactive
    /\ InFlight < MaxInFlight
    /\ score <= MaxScore
    /\ dragActive' = TRUE
    /\ IF dragActive
       THEN OnPointerUp(isPointerDown, selection)
       ELSE /\ isPointerDown' = TRUE
            /\ selection' = <<p>>
            /\ UNCHANGED <<cells, score, timers, released>>
    /\ extended' = NoExtend
    /\ UNCHANGED <<pickerVars, cascadeVars, lifeVars, values, weights, interactive, collapses, settled>>

\* 'pointerdown' over cell p: the drag stream's tap, then switchMap, which
\* first unsubscribes a still-running inner stream (finalize -> _onPointerUp)
PointerDown(p) ==
    /\ inputSubs = "subscribed"
    /\ interactive
    /\ InFlight < MaxInFlight
    /\ score <= MaxScore
    /\ dragActive' = TRUE
    /\ IF dragActive
       THEN OnPointerUp(TRUE, <<p>>)
       ELSE /\ isPointerDown' = TRUE
            /\ selection' = <<p>>
            /\ UNCHANGED <<cells, score, timers, released>>
    /\ extended' = NoExtend
    /\ UNCHANGED <<pickerVars, cascadeVars, lifeVars, values, weights, interactive, collapses, settled>>

\* 'pointermove' over cell p while the inner stream is subscribed
PointerMove(p) ==
    /\ inputSubs = "subscribed"
    /\ interactive
    /\ dragActive
    /\ selection' = TryExtendPath(selection, p)
    /\ extended' = [path |-> selection, cell |-> p,
                    base |-> IF selection = <<>> THEN null ELSE cells[selection[1]],
                    cand |-> cells[p]]
    /\ UNCHANGED <<pickerVars, cascadeVars, lifeVars, values, weights, cells, isPointerDown, interactive, score,
                   dragActive, timers, collapses, released, settled>>

\* 'pointerup' / 'pointerupoutside': takeUntil completes the inner stream and
\* its finalize calls _onPointerUp
PointerUp ==
    /\ inputSubs = "subscribed"
    /\ interactive
    /\ dragActive
    /\ dragActive' = FALSE
    /\ OnPointerUp(isPointerDown, selection)
    /\ extended' = NoExtend
    /\ UNCHANGED <<pickerVars, cascadeVars, lifeVars, values, weights, interactive, collapses, settled>>

\* ---------------------------------------------------------- CollapseEngine
\* srcVals of column c, top to bottom (index 1 is row 0)
SrcVals(cs, c) == [i \in 1 .. rows |-> cs[<<i - 1, c>>]]

IsNonNull(v) == v # null

\* srcVals.filter((v) => v != null)
NonNullVals(cs, c) == SelectSeq(SrcVals(cs, c), IsNonNull)

\* emptyCount = this.rows - nonNullVals.length
EmptyCount(cs, c) == rows - Len(NonNullVals(cs, c))

\* destinations of the generated region: r < emptyCount
GeneratedDest(cs) == { p \in Pos : p[1] < EmptyCount(cs, p[2]) }

\* foundIdx: row of the k-th (0-based) non-null entry of srcVals, -1 if none
FoundIdx(cs, c, k) ==
    LET src  == SrcVals(cs, c)
        hits == { s \in 0 .. rows - 1 :
                    /\ src[s + 1] # null
                    /\ Cardinality({ t \in 0 .. s - 1 : src[t + 1] # null }) = k }
    IN  IF hits = {} THEN -1 ELSE CHOOSE s \in hits : TRUE

\* faulty variant: the surviving values are handed out bottom-up (reversed order)
SettleOpsMutReversed(cs, newVals) ==
    LET surviving == { p \in Pos \ GeneratedDest(cs) :
                         FoundIdx(cs, p[2], p[1] - EmptyCount(cs, p[2])) >= 0 }
    IN  [p \in GeneratedDest(cs) \cup surviving |->
            IF p \in GeneratedDest(cs)
            THEN [val |-> newVals[p], generated |-> TRUE, src |-> -1]
            ELSE [val |-> NonNullVals(cs, p[2])[rows - p[1]],
                  generated |-> FALSE,
                  src |-> FoundIdx(cs, p[2], p[1] - EmptyCount(cs, p[2]))]]

\* the settle-operations one _collapseColumn call creates on the cell values
\* cs, with newVals given per generated destination: destination -> what its
\* tween commits on completion
SettleOps(cs, newVals) ==
    LET surviving == { p \in Pos \ GeneratedDest(cs) :
                         FoundIdx(cs, p[2], p[1] - EmptyCount(cs, p[2])) >= 0 }
    IN  [p \in GeneratedDest(cs) \cup surviving |->
            IF p \in GeneratedDest(cs)
            THEN [val |-> newVals[p], generated |-> TRUE, src |-> -1]
            ELSE [val |-> NonNullVals(cs, p[2])[p[1] - EmptyCount(cs, p[2]) + 1],
                  generated |-> FALSE,
                  src |-> FoundIdx(cs, p[2], p[1] - EmptyCount(cs, p[2]))]]

\* faulty variant: no tween is created for the generated destinations, the
\* empty cells on top of a column are never refilled
CollapseColumnMutNoRefill(cs, sel) ==
    \E newVals \in [GeneratedDest(cs) -> Picks] :
        LET all == SettleOps(cs, newVals)
            ops == [p \in DOMAIN all \ GeneratedDest(cs) |-> all[p]]
        IN  IF DOMAIN ops = {}
            THEN /\ interactive' = TRUE
                 /\ selection' = <<>>
                 /\ collapses' = collapses
                 /\ settled' = [done |-> TRUE, alone |-> collapses = <<>>,
                                ops |-> 0, srcVals |-> cs]
            ELSE /\ interactive' = FALSE
                 /\ selection' = sel
                 /\ collapses' =
                       Append([i \in 1 .. Len(collapses) |->
                                  [collapses[i] EXCEPT !.alone = FALSE]],
                              [ops |-> ops, pending |-> DOMAIN ops,
                               srcVals |-> cs, alone |-> collapses = <<>>,
                               dead |-> {}])
                 /\ settled' = settled

\* _collapseColumn called on the cell values cs while this._selection = sel:
\* disables interaction and subscribes forkJoin over the tweens; with no tween
\* it re-enables interaction and runs cleanup at once.  Each running collapse
\* remembers the srcVals it read, whether another collapse ran beside it, and
\* which of its tweens were killed (dead) before they completed.
CollapseColumn(cs, sel) ==
    \E newVals \in [GeneratedDest(cs) -> Picks] :
        LET ops == SettleOps(cs, newVals)
        IN  IF DOMAIN ops = {}
            THEN /\ interactive' = TRUE
                 /\ selection' = <<>>
                 /\ collapses' = collapses
                 /\ settled' = [done |-> TRUE, alone |-> collapses = <<>>,
                                ops |-> 0, srcVals |-> cs]
            ELSE /\ interactive' = FALSE
                 /\ selection' = sel
                 /\ collapses' =
                       Append([i \in 1 .. Len(collapses) |->
                                  [collapses[i] EXCEPT !.alone = FALSE]],
                              [ops |-> ops, pending |-> DOMAIN ops,
                               srcVals |-> cs, alone |-> collapses = <<>>,
                               dead |-> {}])
                 /\ settled' = settled

\* faulty variant: the surviving tiles' destinations are written when the collapse
\* starts instead of when their tweens complete
TimerFireMutEagerCommit ==
    /\ timers # <<>>
    /\ LET sel     == Head(timers)
           target  == sel[Len(sel)]
           cleared == [p \in Pos |->
                          IF p \in Range(sel) \ {target} THEN null ELSE cells[p]]
       IN  /\ cells' = [p \in Pos |->
                          IF p \in GeneratedDest(cleared) THEN cleared[p]
                          ELSE NonNullVals(cleared, p[2])
                                  [p[1] - EmptyCount(cleared, p[2]) + 1]]
           /\ CollapseColumn(cleared, <<target>>)
    /\ timers' = Tail(timers)
    /\ UNCHANGED <<pickerVars, cascadeVars, lifeVars, values, weights, isPointerDown, score, dragActive, released,
                   extended>>

\* _collapseColumn called by the timer callback after destroy: this._destroy$
\* is null, so subscribing the stream it returns fails in takeUntil before any
\* tween is started.  The failure is either handed to the subscriber's error
\* callback, and finalize re-enables interaction, or thrown into the
\* callback's catch, and interaction stays disabled, depending on the stream
\* library's version; the selection is emptied in both cases.
CollapseAfterDestroy ==
    /\ interactive' \in BOOLEAN
    /\ selection' = <<>>
    /\ UNCHANGED <<collapses, settled>>

\* the setTimeout(..., 220) callback of an accepted release: clear the
\* non-target cells, keep only the target selected, start the collapse
TimerFire ==
    /\ timers # <<>>
    /\ LET sel     == Head(timers)
           target  == sel[Len(sel)]
           cleared == [p \in Pos |->
                          IF p \in Range(sel) \ {target} THEN null ELSE cells[p]]
       IN  /\ cells' = cleared
           /\ IF destroySubject = "open"
              THEN CollapseColumn(cleared, <<target>>)
              ELSE CollapseAfterDestroy
    /\ timers' = Tail(timers)
    /\ UNCHANGED <<pickerVars, cascadeVars, lifeVars, values, weights, isPointerDown, score, dragActive, released,
                   extended>>

\* faulty variant: the collapse reports completion when its first tween completes
SettleCompleteMutFirstWins(i, p) ==
    /\ i \in 1 .. Len(collapses)
    /\ p \in collapses[i].pending
    /\ p \notin collapses[i].dead
    /\ cells' = [cells EXCEPT ![p] = collapses[i].ops[p].val]
    /\ collapses' = RemoveAt(collapses, i)
    /\ interactive' = TRUE
    /\ selection' = <<>>
    /\ settled' = [done |-> TRUE, alone |-> collapses[i].alone,
                   ops |-> Cardinality(DOMAIN collapses[i].ops),
                   srcVals |-> collapses[i].srcVals]
    /\ UNCHANGED <<pickerVars, cascadeVars, lifeVars, values, weights, isPointerDown, score, dragActive, timers,
                   released, extended>>

\* the tween of destination p of the i-th running collapse (one that was not
\* killed) completes: its tap
\* commits the value; when it was the last one, forkJoin completes, the
\* subscriber clears the selection and finalize re-enables interaction
SettleComplete(i, p) ==
    /\ i \in 1 .. Len(collapses)
    /\ p \in collapses[i].pending
    /\ p \notin collapses[i].dead
    /\ cells' = [cells EXCEPT ![p] = collapses[i].ops[p].val]
    /\ IF collapses[i].pending = {p}
       THEN /\ collapses' = RemoveAt(collapses, i)
            /\ interactive' = TRUE
            /\ selection' = <<>>
            /\ settled' = [done |-> TRUE, alone |-> collapses[i].alone,
                           ops |-> Cardinality(DOMAIN collapses[i].ops),
                           srcVals |-> collapses[i].srcVals]
       ELSE /\ collapses' = [collapses EXCEPT ![i].pending = @ \ {p}]
            /\ UNCHANGED <<interactive, selection, settled>>
    /\ UNCHANGED <<pickerVars, cascadeVars, lifeVars, values, weights, isPointerDown, score, dragActive, timers,
                   released, extended>>

\* the grid at rest: no gesture, no timer and no collapse in progress
Idle ==
    /\ interactive
    /\ ~isPointerDown
    /\ ~dragActive
    /\ selection = <<>>
    /\ timers = <<>>
    /\ collapses = <<>>

\* a direct call of _collapseColumn() on the grid at rest
CollapseCall ==
    /\ destroySubject = "open"
    /\ Idle
    /\ CollapseColumn(cells, selection)
    /\ UNCHANGED <<pickerVars, cascadeVars, lifeVars, values, weights, cells, isPointerDown, score, dragActive,
                   timers, released, extended>>

\* ------------------------------------------------------------ specification
Next ==
    \/ \E p \in Pos : PointerDown(p)
    \/ \E p \in Pos : PointerMove(p)
    \/ PointerUp
    \/ TimerFire
    \/ CollapseCall
    \/ \E i \in 1 .. MaxInFlight : \E p \in Pos : SettleComplete(i, p)

Spec == Init /\ [][Next]_vars

\* the same grid with timers that fire and tweens that complete: a pending
\* setTimeout callback runs, and every started tween reaches its onComplete
FairSpec ==
    /\ Spec
    /\ WF_vars(TimerFire)
    /\ \A i \in 1 .. MaxInFlight : \A p \in Pos : WF_vars(SettleComplete(i, p))

\* ---------------------------------------------------------------- lifecycle
\* what _onPointerUp(), called with this._isPointerDown = ipd and
\* this._selection = sel, decides: the record OnPointerUp leaves in released
ReleaseOutcome(ipd, sel) ==
    LET vals == [i \in 1 .. Len(sel) |-> cells[sel[i]]]
        rv   == ResultValue(vals, values)
    IN  IF ~ipd
        THEN [kind |-> "ignored", vals |-> <<>>, resultValue |-> null]
        ELSE IF Len(sel) < minCollectLen
        THEN [kind |-> "short", vals |-> vals, resultValue |-> null]
        ELSE IF rv = null
        THEN [kind |-> "rejected", vals |-> vals, resultValue |-> null]
        ELSE [kind |-> "accepted", vals |-> vals, resultValue |-> rv]

\* the first effective destroy(): (1) the input subscriptions are
\* unsubscribed; a drag in progress ends, and its finalize calls
\* _onPointerUp, which resolves the path selected so far (an accepted merge
\* changes the score and the target and schedules its timer); (2)
\* this._destroy$ emits: every running collapse is cut off by takeUntil, its
\* tweens are killed without committing, its subscriber empties the selection
\* and its finalize re-enables interaction; (3) both fields are set to null.
\* super.destroy belongs to the rendering library.
Teardown ==
    LET out      == IF dragActive THEN ReleaseOutcome(isPointerDown, selection)
                    ELSE released
        accepted == dragActive /\ out.kind = "accepted"
        after    == IF ~dragActive \/ out.kind \in {"ignored", "accepted"}
                    THEN selection ELSE <<>>
    IN  /\ released' = out
        /\ isPointerDown' = IF dragActive THEN FALSE ELSE isPointerDown
        /\ dragActive' = FALSE
        /\ score' = IF accepted THEN NumberOr0(score) + out.resultValue ELSE score
        /\ cells' = IF accepted
                    THEN [cells EXCEPT ![selection[Len(selection)]] = out.resultValue]
                    ELSE cells
        /\ timers' = IF accepted THEN Append(timers, selection) ELSE timers
        /\ IF collapses # <<>>
           THEN interactive' = TRUE /\ selection' = <<>>
           ELSE interactive' = interactive /\ selection' = after
        /\ collapses' = <<>>
        /\ inputSubs' = "null"
        /\ destroySubject' = "null"

\* faulty variant: a call on a grid already torn down opens a new lifecycle
\* subject instead of doing nothing
DestroyMutReopens ==
    /\ destroyCalls < MaxDestroyCalls
    /\ destroyCalls' = destroyCalls + 1
    /\ IF inputSubs = "subscribed" \/ destroySubject = "open"
       THEN Teardown
       ELSE /\ destroySubject' = "open"
            /\ UNCHANGED <<cells, selection, isPointerDown, interactive, score,
                           dragActive, timers, collapses, released, inputSubs>>
    /\ UNCHANGED <<pickerVars, cascadeVars, values, weights, settled, extended>>

\* destroy(options): the whole teardown on the first call; on a later call
\* both guards (this._inputSubs, this._destroy$) find null and nothing is done
Destroy ==
    /\ destroyCalls < MaxDestroyCalls
    /\ destroyCalls' = destroyCalls + 1
    /\ IF inputSubs = "subscribed" \/ destroySubject = "open"
       THEN Teardown
       ELSE UNCHANGED <<cells, selection, isPointerDown, interactive, score,
                        dragActive, timers, collapses, released, inputSubs,
                        destroySubject>>
    /\ UNCHANGED <<pickerVars, cascadeVars, values, weights, settled, extended>>

\* tweens killed so far that their collapse is still waiting for
Killed ==
    LET n(i) == Cardinality(collapses[i].dead)
    IN  SeqSum([i \in 1 .. Len(collapses) |-> n(i)])

\* the tween of destination p of the i-th running collapse is killed from
\* outside before it completes: its onComplete never runs, so the stream of
\* _tweenTo$ neither emits nor completes nor fails
TweenKilled(i, p) ==
    /\ i \in 1 .. Len(collapses)
    /\ p \in collapses[i].pending \ collapses[i].dead
    /\ Killed < MaxKilled
    /\ collapses' = [collapses EXCEPT ![i].dead = @ \cup {p}]
    /\ UNCHANGED <<pickerVars, cascadeVars, lifeVars, values, weights, cells,
                   selection, isPointerDown, interactive, score, dragActive,
                   timers, released, settled, extended>>

LifeNext ==
    \/ \E p \in Pos : PointerDown(p)
    \/ \E p \in Pos : PointerMove(p)
    \/ PointerUp
    \/ TimerFire
    \/ CollapseCall
    \/ \E i \in 1 .. MaxInFlight : \E p \in Pos : SettleComplete(i, p)
    \/ Destroy
    \/ \E i \in 1 .. MaxInFlight : \E p \in Pos : TweenKilled(i, p)

LifeSpec == Init /\ [][LifeNext]_vars

\* ------------------------------------------------- the picker on its own
\* the first k configured denominations of the default table
Denoms(k) == SubSeq(<<1, 5, 10, 25, 50, 100>>, 1, k)

\* constructor options the picker is exercised with: values of 1 .. MaxDenoms
\* denominations, weights of any length up to MaxDenoms (matching or not)
PickInit ==
    /\ \E k \in 1 .. MaxDenoms : values = Denoms(k)
    /\ \E k \in 1 .. MaxDenoms : weights \in [1 .. k -> 0 .. MaxWeight]
    /\ cells = [p \in Pos |-> null]
    /\ selection = <<>>
    /\ isPointerDown = FALSE
    /\ interactive = TRUE
    /\ score = 0
    /\ dragActive = FALSE
    /\ timers = <<>>
    /\ collapses = <<>>
    /\ released = [kind |-> "none", vals |-> <<>>, resultValue |-> null]
    /\ settled = [done |-> FALSE, alone |-> FALSE, ops |-> 0,
                  srcVals |-> [p \in Pos |-> null]]
    /\ extended = NoExtend
    /\ draw = -1
    /\ picked = null
    /\ Alive
    /\ NoCascade

\* one call this._pickWeighted(this.values, this.weights)
Pick ==
    LET w == EffectiveWeights(values, weights)
    IN  \E R \in 0 .. SumW(w) + 1 :
           /\ draw' = R
           /\ picked' = PickWeighted(values, w, R)
           /\ UNCHANGED <<gridVars, cascadeVars, lifeVars, values, weights>>

PickNext == Pick

PickSpec == PickInit /\ [][PickNext]_vars

\* ------------------------------------------------------------- GroupFinder
\* the cells of a grid of nr rows and nc columns
CellsOf(nr, nc) == (0 .. nr - 1) \X (0 .. nc - 1)

\* faulty variant: the left neighbour is missing from the list
NeighborsMutNoLeft(p) ==
    << <<p[1] - 1, p[2]>>, <<p[1] + 1, p[2]>>, <<p[1], p[2] + 1>> >>

\* neighbors of [cr, cc], in the order _findGroups lists them
Neighbors(p) ==
    << <<p[1] - 1, p[2]>>, <<p[1] + 1, p[2]>>,
       <<p[1], p[2] - 1>>, <<p[1], p[2] + 1>> >>

\* the for loop over the neighbors of one dequeued cell, from the k-th on:
\* the neighbors it pushes, in order, given the visited set so far
RECURSIVE PushNeighbors(_, _, _, _, _, _, _)
PushNeighbors(cs, nr, nc, v, nbs, k, visited) ==
    IF k > Len(nbs) THEN <<>>
    ELSE LET n == nbs[k]
         IN  IF /\ n \in CellsOf(nr, nc)
                /\ n \notin visited
                /\ cs[n] = v
             THEN <<n>> \o PushNeighbors(cs, nr, nc, v, nbs, k + 1,
                                         visited \cup {n})
             ELSE PushNeighbors(cs, nr, nc, v, nbs, k + 1, visited)

\* the while (q.length) loop: the group and the visited set it ends with
RECURSIVE Bfs(_, _, _, _, _, _, _)
Bfs(cs, nr, nc, v, q, group, visited) ==
    IF q = <<>> THEN [group |-> group, visited |-> visited]
    ELSE LET pushed == PushNeighbors(cs, nr, nc, v, Neighbors(Head(q)), 1,
                                     visited)
         IN  Bfs(cs, nr, nc, v, Tail(q) \o pushed, Append(group, Head(q)),
                 visited \cup Range(pushed))

\* the row-major double loop from cell number idx on
RECURSIVE ScanCells(_, _, _, _, _, _)
ScanCells(cs, nr, nc, idx, visited, found) ==
    IF idx >= nr * nc THEN found
    ELSE LET p == <<idx \div nc, idx % nc>>
         IN  IF p \in visited
             THEN ScanCells(cs, nr, nc, idx + 1, visited, found)
             ELSE IF cs[p] = null
             THEN ScanCells(cs, nr, nc, idx + 1, visited \cup {p}, found)
             ELSE LET b == Bfs(cs, nr, nc, cs[p], <<p>>, <<>>,
                               visited \cup {p})
                  IN  ScanCells(cs, nr, nc, idx + 1, b.visited,
                                IF Len(b.group) > 0
                                THEN Append(found, [value |-> cs[p],
                                                    cells |-> b.group])
                                ELSE found)

\* _findGroups() on the cell values cs of a grid of nr rows and nc columns
FindGroups(cs, nr, nc) == ScanCells(cs, nr, nc, 0, {}, <<>>)

\* grids the group search is exercised on: every cell null or one of the two
\* most frequent denominations
GroupInit ==
    /\ values = <<1, 5, 10, 25, 50, 100>>
    /\ weights = <<35, 18, 12, 6, 3, 1>>
    /\ gridRows = GroupRows
    /\ gridCols = GroupCols
    /\ board \in [CellsOf(GroupRows, GroupCols) -> {null, 1, 5}]
    /\ groups = <<>>
    /\ loopPc = "idle"
    /\ mergeQueue = <<>>
    /\ animations = NoAnimations
    /\ tapped = NoTap
    /\ mark = NoMark
    /\ cells = [p \in Pos |-> null]
    /\ selection = <<>>
    /\ isPointerDown = FALSE
    /\ interactive = TRUE
    /\ score = 0
    /\ dragActive = FALSE
    /\ timers = <<>>
    /\ collapses = <<>>
    /\ released = [kind |-> "none", vals |-> <<>>, resultValue |-> null]
    /\ settled = [done |-> FALSE, alone |-> FALSE, ops |-> 0,
                  srcVals |-> [p \in Pos |-> null]]
    /\ extended = NoExtend
    /\ draw = -1
    /\ picked = null
    /\ Alive

\* one call this._findGroups()
FindGroupsCall ==
    /\ loopPc = "idle"
    /\ groups' = FindGroups(board, gridRows, gridCols)
    /\ loopPc' = "found"
    /\ UNCHANGED <<gridVars, pickerVars, lifeVars, values, weights, gridRows, gridCols,
                   board, mergeQueue, animations, tapped, mark>>

GroupNext == FindGroupsCall

GroupSpec == GroupInit /\ [][GroupNext]_vars

\* ------------------------------------------------------ auto-merge cascade
\* this.values.findIndex((v) => v === value), 1-based, 0 when not found
FindIndex(arr, value) ==
    LET hits == { i \in 1 .. Len(arr) : arr[i] = value }
    IN  IF hits = {} THEN 0 ELSE CHOOSE i \in hits : \A j \in hits : i <= j

\* nextVal of _autoMergeLoop for a group of the given value
NextVal(value) ==
    LET idx == FindIndex(values, value)
    IN  IF idx >= 1
        THEN values[IF idx + 1 <= Len(values) THEN idx + 1 ELSE Len(values)]
        ELSE value

\* faulty variant: the first cell of the group is kept as the target
GroupTargetMutFirst(grp) == grp.cells[1]

\* last = grp.cells[grp.cells.length - 1]
GroupTarget(grp) == grp.cells[Len(grp.cells)]

\* .filter((g) => g.cells.length >= this.minCollectLen)
Qualifies(g) == Len(g.cells) >= minCollectLen

\* the body of the for loop up to its first await: the target takes nextVal
ApplyTarget(b, grp) == [b EXCEPT ![GroupTarget(grp)] = NextVal(grp.value)]

\* after the 240 ms wait: every member but the target is set to null
ClearOthers(b, grp) ==
    [p \in DOMAIN b |->
        IF p \in Range(grp.cells) \ {GroupTarget(grp)} THEN null ELSE b[p]]

\* srcVals of column c of the promise-based grid, top to bottom
BoardColumn(b, c) == [i \in 1 .. gridRows |-> b[<<i - 1, c>>]]

\* emptyCount of column c
BoardEmptyCount(b, c) == gridRows - Len(SelectSeq(BoardColumn(b, c), IsNonNull))

\* the destinations r < emptyCount, which take generated values
BoardGenerated(b) ==
    { p \in CellsOf(gridRows, gridCols) : p[1] < BoardEmptyCount(b, p[2]) }

\* finalVals = newVals.concat(nonNullVals), per destination
FinalVals(b, newVals) ==
    [p \in CellsOf(gridRows, gridCols) |->
        IF p \in BoardGenerated(b) THEN newVals[p]
        ELSE SelectSeq(BoardColumn(b, p[2]), IsNonNull)
                [p[1] - BoardEmptyCount(b, p[2]) + 1]]

\* the head of the while (true) loop run on the cell values b, up to the first
\* await: search the groups, stop when none qualifies, else give the first
\* qualifying group's target its next value and wait 240 ms
LoopHead(b) ==
    LET found == FindGroups(b, gridRows, gridCols)
        q     == SelectSeq(found, Qualifies)
    IN  /\ groups' = found
        /\ mergeQueue' = q
        /\ IF q = <<>>
           THEN board' = b /\ loopPc' = "done"
           ELSE board' = ApplyTarget(b, Head(q)) /\ loopPc' = "wait"

\* configurations the promise-based grid is built with: one whose largest
\* denomination is 25, one whose largest denomination is the jackpot value
AutoConfigs ==
    { [values |-> <<1, 5, 10, 25>>, weights |-> <<1, 1, 1, 0>>],
      [values |-> <<1, 5, 500>>,    weights |-> <<1, 1, 0>>] }

\* a grid of the promise-based revision at rest after construction, autoMerge on
AutoInit ==
    /\ \E cfg \in AutoConfigs : values = cfg.values /\ weights = cfg.weights
    /\ gridRows = AutoRows
    /\ gridCols = AutoCols
    /\ board \in [CellsOf(AutoRows, AutoCols) -> Picks]
    /\ groups = <<>>
    /\ loopPc = "idle"
    /\ mergeQueue = <<>>
    /\ animations = NoAnimations
    /\ tapped = NoTap
    /\ mark = NoMark
    /\ cells = [p \in Pos |-> null]
    /\ selection = <<>>
    /\ isPointerDown = FALSE
    /\ interactive = TRUE
    /\ score = 0
    /\ dragActive = FALSE
    /\ timers = <<>>
    /\ collapses = <<>>
    /\ released = [kind |-> "none", vals |-> <<>>, resultValue |-> null]
    /\ settled = [done |-> FALSE, alone |-> FALSE, ops |-> 0,
                  srcVals |-> [p \in Pos |-> null]]
    /\ extended = NoExtend
    /\ draw = -1
    /\ picked = null
    /\ Alive

\* this._autoMergeLoop() is called on the grid at rest
AutoMergeLoopCall ==
    /\ loopPc = "idle"
    /\ LoopHead(board)
    /\ UNCHANGED <<gridVars, pickerVars, lifeVars, values, weights, gridRows, gridCols,
                   animations, tapped, mark>>

\* faulty variant: the cascade awards the upgraded value of the group it
\* clears, as an accepted release does
FadeTimerFireMutAwards ==
    /\ loopPc = "wait"
    /\ LET cleared == ClearOthers(board, Head(mergeQueue))
       IN  \E newVals \in [BoardGenerated(cleared) -> Picks] :
              /\ animations' = [pending |-> CellsOf(gridRows, gridCols),
                                vals    |-> FinalVals(cleared, newVals),
                                srcVals |-> cleared]
              /\ board' = [p \in CellsOf(gridRows, gridCols) |-> null]
    /\ interactive' = FALSE
    /\ loopPc' = "collapse"
    /\ score' = score + NextVal(Head(mergeQueue).value)
    /\ UNCHANGED <<cells, selection, isPointerDown, dragActive, timers,
                   collapses, released, settled, extended, pickerVars, lifeVars, values,
                   weights, gridRows, gridCols, groups, mergeQueue, tapped, mark>>

\* the 240 ms wait is over: clear the other members, then _collapseColumn()
\* up to its return: it reads every column, clears every surviving source cell
\* and creates one promise per destination
FadeTimerFire ==
    /\ loopPc = "wait"
    /\ LET cleared == ClearOthers(board, Head(mergeQueue))
       IN  \E newVals \in [BoardGenerated(cleared) -> Picks] :
              /\ animations' = [pending |-> CellsOf(gridRows, gridCols),
                                vals    |-> FinalVals(cleared, newVals),
                                srcVals |-> cleared]
              /\ board' = [p \in CellsOf(gridRows, gridCols) |-> null]
    /\ interactive' = FALSE
    /\ loopPc' = "collapse"
    /\ UNCHANGED <<cells, selection, isPointerDown, score, dragActive, timers,
                   collapses, released, settled, extended, pickerVars, lifeVars, values,
                   weights, gridRows, gridCols, groups, mergeQueue, tapped, mark>>

\* faulty variant: the loop goes on with the first tween that completes
\* instead of waiting for all of them
AnimationCompleteMutNoJoin(p) ==
    /\ loopPc = "collapse"
    /\ p \in animations.pending
    /\ LET b1 == [board EXCEPT ![p] = animations.vals[p]]
       IN  /\ interactive' = (animations.pending = {p})
           /\ animations' = IF animations.pending = {p} THEN NoAnimations
                            ELSE [animations EXCEPT !.pending = @ \ {p}]
           /\ IF Len(mergeQueue) > 1
              THEN /\ board' = ApplyTarget(b1, mergeQueue[2])
                   /\ mergeQueue' = Tail(mergeQueue)
                   /\ loopPc' = "wait"
                   /\ groups' = groups
              ELSE LoopHead(b1)
    /\ UNCHANGED <<cells, selection, isPointerDown, score, dragActive, timers,
                   collapses, released, settled, extended, pickerVars, lifeVars, values,
                   weights, gridRows, gridCols, tapped, mark>>

\* the tween of destination p completes and commits its value; with the last
\* one Promise.all resolves, interaction is re-enabled and the loop goes on
\* with the next group of the pass or, after the last, with the next pass
AnimationComplete(p) ==
    /\ loopPc = "collapse"
    /\ p \in animations.pending
    /\ LET b1 == [board EXCEPT ![p] = animations.vals[p]]
       IN  IF animations.pending = {p}
           THEN /\ interactive' = TRUE
                /\ animations' = NoAnimations
                /\ IF Len(mergeQueue) > 1
                   THEN /\ board' = ApplyTarget(b1, mergeQueue[2])
                        /\ mergeQueue' = Tail(mergeQueue)
                        /\ loopPc' = "wait"
                        /\ groups' = groups
                   ELSE LoopHead(b1)
           ELSE /\ board' = b1
                /\ animations' = [animations EXCEPT !.pending = @ \ {p}]
                /\ UNCHANGED <<interactive, mergeQueue, loopPc, groups>>
    /\ UNCHANGED <<cells, selection, isPointerDown, score, dragActive, timers,
                   collapses, released, settled, extended, pickerVars, lifeVars, values,
                   weights, gridRows, gridCols, tapped, mark>>

\* -------------------------------------------------------------- jackpot tap
\* no tap is on its way: neither its fade nor its collapse is running
TapAtRest == tapped.phase \notin {"fade", "collapse"}

\* 'pointertap' over cell p -> _onTap, delivered while the grid is interactive.
\* Taps are exercised on the grid at rest (no cascade pass, no collapse and no
\* earlier tap under way).  A cell holding 500 is collected: the score grows
\* by 500 and the 0.22 s fade starts; any other tap is ignored.
Tap(p) ==
    /\ interactive
    /\ loopPc \in {"idle", "done"}
    /\ animations.pending = {}
    /\ TapAtRest
    /\ score < gold * MaxTaps
    /\ IF board[p] = gold
       THEN /\ score' = score + gold
            /\ tapped' = [cell |-> p, value |-> board[p], phase |-> "fade"]
       ELSE /\ score' = score
            /\ tapped' = [cell |-> p, value |-> board[p], phase |-> "ignored"]
    /\ UNCHANGED <<cells, selection, isPointerDown, interactive, dragActive,
                   timers, collapses, released, settled, extended, pickerVars, lifeVars,
                   values, weights, gridRows, gridCols, board, groups, loopPc,
                   mergeQueue, animations, mark>>

\* onComplete of the tapped cell's fade: the cell is set to null, then
\* _collapseColumn() runs up to its return, as in FadeTimerFire
TapFadeComplete ==
    /\ tapped.phase = "fade"
    /\ LET cleared == [board EXCEPT ![tapped.cell] = null]
       IN  \E newVals \in [BoardGenerated(cleared) -> Picks] :
              /\ animations' = [pending |-> CellsOf(gridRows, gridCols),
                                vals    |-> FinalVals(cleared, newVals),
                                srcVals |-> cleared]
              /\ board' = [p \in CellsOf(gridRows, gridCols) |-> null]
    /\ interactive' = FALSE
    /\ tapped' = [tapped EXCEPT !.phase = "collapse"]
    /\ UNCHANGED <<cells, selection, isPointerDown, score, dragActive, timers,
                   collapses, released, settled, extended, pickerVars, lifeVars, values,
                   weights, gridRows, gridCols, groups, loopPc, mergeQueue, mark>>

\* the tween of destination p of the tap's collapse completes and commits its
\* value; with the last one Promise.all resolves and interaction is
\* re-enabled.  _onTap awaits nothing else: no group search follows.
TapAnimationComplete(p) ==
    /\ tapped.phase = "collapse"
    /\ p \in animations.pending
    /\ board' = [board EXCEPT ![p] = animations.vals[p]]
    /\ IF animations.pending = {p}
       THEN /\ interactive' = TRUE
            /\ animations' = NoAnimations
            /\ tapped' = [tapped EXCEPT !.phase = "settled"]
       ELSE /\ animations' = [animations EXCEPT !.pending = @ \ {p}]
            /\ UNCHANGED <<interactive, tapped>>
    /\ UNCHANGED <<cells, selection, isPointerDown, score, dragActive, timers,
                   collapses, released, settled, extended, pickerVars, lifeVars, values,
                   weights, gridRows, gridCols, groups, loopPc, mergeQueue, mark>>

AutoNext ==
    \/ AutoMergeLoopCall
    \/ FadeTimerFire
    \/ \E p \in CellsOf(AutoRows, AutoCols) : AnimationComplete(p)
    \/ \E p \in CellsOf(AutoRows, AutoCols) : Tap(p)
    \/ TapFadeComplete
    \/ \E p \in CellsOf(AutoRows, AutoCols) : TapAnimationComplete(p)

AutoSpec == AutoInit /\ [][AutoNext]_vars

\* ------------------------------------------------- the passes of the cascade
\* while the loop waits after applying the first group of a pass, the grid
\* and the groups of that pass are remembered (once), to be compared with
\* the passes that follow
MarkPass ==
    /\ loopPc = "wait"
    /\ ~mark.set
    /\ mergeQueue = SelectSeq(groups, Qualifies)
    /\ mark' = [set |-> TRUE, board |-> board, queue |-> mergeQueue]
    /\ UNCHANGED <<gridVars, pickerVars, lifeVars, values, weights, gridRows, gridCols,
                   board, groups, loopPc, mergeQueue, animations, tapped>>

\* the cascade on its own, with one of its passes remembered
PassNext ==
    \/ AutoMergeLoopCall
    \/ FadeTimerFire
    \/ \E p \in CellsOf(AutoRows, AutoCols) : AnimationComplete(p)
    \/ MarkPass

PassSpec == AutoInit /\ [][PassNext]_vars

\* ------------------------------------------------ the cascade, wider grid
\* a grid of the promise-based revision of WideRows x WideCols cells at rest
\* after construction, every cell one of the two most frequent denominations
WideInit ==
    /\ values = <<1, 5, 10, 25>>
    /\ weights = <<1, 1, 1, 0>>
    /\ gridRows = WideRows
    /\ gridCols = WideCols
    /\ board \in [CellsOf(WideRows, WideCols) -> {1, 5}]
    /\ groups = <<>>
    /\ loopPc = "idle"
    /\ mergeQueue = <<>>
    /\ animations = NoAnimations
    /\ tapped = NoTap
    /\ mark = NoMark
    /\ cells = [p \in Pos |-> null]
    /\ selection = <<>>
    /\ isPointerDown = FALSE
    /\ interactive = TRUE
    /\ score = 0
    /\ dragActive = FALSE
    /\ timers = <<>>
    /\ collapses = <<>>
    /\ released = [kind |-> "none", vals |-> <<>>, resultValue |-> null]
    /\ settled = [done |-> FALSE, alone |-> FALSE, ops |-> 0,
                  srcVals |-> [p \in Pos |-> null]]
    /\ extended = NoExtend
    /\ draw = -1
    /\ picked = null
    /\ Alive

WideNext ==
    \/ AutoMergeLoopCall
    \/ FadeTimerFire
    \/ \E p \in CellsOf(WideRows, WideCols) : AnimationComplete(p)

WideSpec == WideInit /\ [][WideNext]_vars

\* ================================================================== claims
\* a step in which _onPointerUp runs past its _isPointerDown guard: a
\* pointer-up of a gesture, or the finalize of a stream that switchMap drops
ReleaseHandled ==
    \/ PointerUp /\ isPointerDown
    \/ dragActive /\ \E p \in Pos : PointerDown(p)

\* the values of the cells on the path, in path order
PathVals(sel) == [i \in 1 .. Len(sel) |-> cells[sel[i]]]

\* C1 (as claimed): with values [1,5,10,25,50,100], releasing a path of
\* exactly two cells valued 5 and 10 is accepted with resultValue 25: the last
\* cell becomes 25, the score grows by 25 and the other cell is queued for
\* clearing.
C1_FiveAndTenGive25 ==
    [][ ( /\ PointerUp /\ isPointerDown
          /\ values = <<1, 5, 10, 25, 50, 100>>
          /\ Len(selection) = 2
          /\ Range(PathVals(selection)) = {5, 10} )
        => ( /\ released'.kind = "accepted"
             /\ released'.resultValue = 25
             /\ cells'[selection[2]] = 25
             /\ score' = score + 25
             /\ timers' = Append(timers, selection) ) ]_vars

\* the outcome the merge rule prescribes for the selected values: the sum
\* when it is a denomination, 25 for a 5/10 mix summing to 25, else rejection
PrescribedResult(vals) ==
    LET sum == SeqSum([i \in 1 .. Len(vals) |-> NumberOr0(vals[i])])
    IN  IF sum \in Range(values) THEN sum
        ELSE IF sum = 25 /\ 5 \in Range(vals) /\ 10 \in Range(vals) THEN 25
        ELSE null

C3_RejectedReleaseChangesNothing ==
    [][ (ReleaseHandled /\ released'.kind # "accepted")
        => ( /\ cells' = cells
             /\ score' = score
             /\ timers' = timers
             /\ selection' = <<>> ) ]_vars

\* C3 witness: a path of at least minRunLength cells was released and rejected
C3_Witness ==
    /\ released.kind = "rejected"
    /\ Len(released.vals) >= minCollectLen
    /\ selection = <<>>
    /\ ~isPointerDown

\* C4: an accepted release adds exactly resultValue to the score and writes
\* resultValue to the last cell of the path and to no other cell; the
\* deferred clearing then sets every other cell of the path to null and
\* changes no cell outside the path.
C4_AcceptedMergeEffect ==
    [][ /\ (ReleaseHandled /\ released'.kind = "accepted")
           => ( /\ released'.resultValue # null
                /\ score' = score + released'.resultValue
                /\ cells' = [cells EXCEPT ![selection[Len(selection)]] =
                                             released'.resultValue] )
        /\ TimerFire
           => LET sel    == Head(timers)
                  others == Range(sel) \ {sel[Len(sel)]}
              IN  /\ \A p \in others : cells'[p] = null
                  /\ \A p \in Pos \ others : cells'[p] = cells[p]
                  /\ score' = score ]_vars

\* C4 witness: the deferred clearing of an accepted merge has just run: the
\* collapse it started has committed nothing yet, a cleared cell is null and
\* the merged value is on the grid
C4_Witness ==
    /\ released.kind = "accepted"
    /\ score = released.resultValue
    /\ \E i \in 1 .. Len(collapses) :
          /\ collapses[i].pending = DOMAIN collapses[i].ops
          /\ cells = collapses[i].srcVals
    /\ \E p \in Pos : cells[p] = null
    /\ \E p \in Pos : cells[p] = released.resultValue

\* C5 (as claimed): from the moment a release is accepted until the
\* resulting collapse has completed, the deferred-clearing delay included, no
\* pointer-down starts a selection and no second release is resolved.
C5_NoSelectionWhileResolving ==
    [][ (timers # <<>> \/ collapses # <<>>)
        => /\ ~(\E p \in Pos : PointerDown(p))
           /\ ~ReleaseHandled ]_vars

\* C6 (as claimed): whenever a settle-operation of any collapse is still
\* pending, interaction is disabled.
C6_DisabledWhilePending ==
    (\E i \in 1 .. Len(collapses) : collapses[i].pending # {}) => ~interactive

\* a step in which a running collapse reports completion
CollapseCompletes == Len(collapses') < Len(collapses)

\* a step in which _collapseColumn is called
CollapseStarts == TimerFire \/ CollapseCall

\* column c of a grid of cell values, top to bottom
Column(cs, c) == [i \in 1 .. rows |-> cs[<<i - 1, c>>]]

\* C7: when a collapse that ran alone completes, every column holds in its
\* bottom k rows the k values that were non-null before the collapse, in the
\* same top-to-bottom order, and in its top emptyCount rows members of values.
C7_CollapsePreservesOrder ==
    [][ (CollapseCompletes /\ settled'.alone)
        => \A c \in 0 .. cols - 1 :
              LET before == Column(settled'.srcVals, c)
                  surv   == SelectSeq(before, IsNonNull)
                  empty  == rows - Len(surv)
              IN  \A r \in 0 .. rows - 1 :
                     IF r < empty
                     THEN cells'[<<r, c>>] \in Range(values)
                     ELSE cells'[<<r, c>>] = surv[r - empty + 1] ]_vars

\* C7 witness: a collapse that ran alone has completed on a column in which a
\* surviving tile stood above a hole; the tile now sits one row lower, above
\* the other survivor
C7_Witness ==
    /\ settled.done /\ settled.alone
    /\ collapses = <<>> /\ timers = <<>>
    /\ \E c \in 0 .. cols - 1 :
          /\ settled.srcVals[<<0, c>>] # null
          /\ settled.srcVals[<<1, c>>] = null
          /\ settled.srcVals[<<2, c>>] # null
          /\ settled.srcVals[<<0, c>>] # settled.srcVals[<<2, c>>]
          /\ cells[<<1, c>>] = settled.srcVals[<<0, c>>]
          /\ cells[<<2, c>>] = settled.srcVals[<<2, c>>]
          /\ cells[<<0, c>>] \in Range(values)

\* C8 (as claimed): _collapseColumn called at rest on a grid whose columns
\* are all full creates no settle-operation and reports completion at once.
C8_FullGridCollapseIsNoOp ==
    [][ (CollapseCall /\ \A p \in Pos : cells[p] # null)
        => ( /\ collapses' = collapses
             /\ interactive'
             /\ settled'.done /\ settled'.ops = 0 ) ]_vars

\* C9: a collapse reports completion (leaves the running list, re-enables
\* interaction) only in the step in which the last of the settle-operations
\* it created completes; while one is pending it keeps running, and
\* interaction is re-enabled by nothing but such a completion.
C9_JoinAll ==
    [][ /\ CollapseCompletes
           => \E i \in 1 .. Len(collapses) : \E p \in Pos :
                 /\ collapses' = RemoveAt(collapses, i)
                 /\ collapses[i].pending = {p}
                 /\ cells'[p] = collapses[i].ops[p].val
                 /\ settled'.ops = Cardinality(DOMAIN collapses[i].ops)
        /\ (~interactive /\ interactive') => CollapseCompletes
        /\ \A i \in 1 .. Len(collapses') :
              /\ collapses'[i].pending # {}
              /\ collapses'[i].pending \subseteq DOMAIN collapses'[i].ops ]_vars

\* C9 witness: a collapse of several settle-operations has reported
\* completion and nothing is pending
C9_Witness ==
    /\ settled.done
    /\ settled.ops >= 2
    /\ collapses = <<>>
    /\ interactive

\* C10: the step that starts a collapse writes no value into any cell (it
\* only clears the merged cells), and a cell takes a new non-null value from
\* a collapse only in the step in which its own settle-operation completes,
\* for generated and surviving tiles alike.
C10_CommitOnCompletion ==
    [][ /\ CollapseStarts
           => \A q \in Pos : cells'[q] = cells[q] \/ cells'[q] = null
        /\ ~ReleaseHandled
           => \A q \in Pos :
                 (cells'[q] # cells[q] /\ cells'[q] # null)
                 => \E i \in 1 .. Len(collapses) :
                       /\ q \in collapses[i].pending
                       /\ cells'[q] = collapses[i].ops[q].val
                       /\ \/ CollapseCompletes
                          \/ q \notin collapses'[i].pending ]_vars

\* C10 witness: a running collapse has committed the value of one settled
\* destination while a generated and a surviving destination, both still
\* pending, do not hold their final values yet
C10_Witness ==
    \E i \in 1 .. Len(collapses) :
       LET k == collapses[i]
       IN  /\ k.alone
           /\ \E q \in DOMAIN k.ops \ k.pending : cells[q] = k.ops[q].val
           /\ \E q \in k.pending : k.ops[q].generated /\ cells[q] # k.ops[q].val
           /\ \E q \in k.pending : ~k.ops[q].generated /\ cells[q] # k.ops[q].val

\* C11 (as claimed): whenever the grid is at rest, every cell holds null or
\* a member of the configured values.
C11_CellsHoldDenominations ==
    Idle => \A p \in Pos : cells[p] = null \/ cells[p] \in Range(values)

\* the supplied weights have the length of values and a positive sum
WeightsMatch == Len(weights) = Len(values) /\ SeqSum(weights) > 0

\* C12: for non-empty values and weights of matching length and positive
\* sum, a pick returns the first value, in array order, whose cumulative
\* weight is >= the draw, the last value when the draw exceeds every
\* cumulative sum, and in both cases a member of values.
C12_PickFirstCumulative ==
    (draw >= 0 /\ WeightsMatch)
    => LET hits == { i \in 1 .. Len(values) : Acc(weights, i) >= draw }
       IN  /\ picked \in Range(values)
           /\ IF hits = {}
              THEN picked = values[Len(values)]
              ELSE \E i \in hits : /\ picked = values[i]
                                   /\ \A j \in hits : i <= j

\* C12 witness: a draw above the first cumulative weight and not above the
\* second returned the second of three values
C12_Witness ==
    /\ WeightsMatch
    /\ Len(values) = 3
    /\ draw > Acc(weights, 1)
    /\ draw <= Acc(weights, 2)
    /\ picked = values[2]

\* C13 (as claimed): with weights of the length of values that sum to zero
\* the picker selects uniformly: whatever a pick has returned, every member
\* of values can be returned.
C13_ZeroSumIsUniform ==
    (draw >= 0 /\ Len(weights) = Len(values) /\ SeqSum(weights) = 0)
    => \A v \in Range(values) :
          \E R \in 0 .. SumW(EffectiveWeights(values, weights)) + 1 :
             PickWeighted(values, EffectiveWeights(values, weights), R) = v


\* the candidate of an extension is the second-to-last entry of the path
IsBacktrack(sel, p) == Len(sel) >= 2 /\ sel[Len(sel) - 1] = p

\* the value-compatibility rule between the path's first value and a candidate
Compatible(base, cand) == cand = base \/ (base \in {5, 10} /\ cand \in {5, 10})

\* C14 (as claimed): extending an active selection with a cell already
\* present in the path leaves the path unchanged.
C14_PresentCellIsNoOp ==
    [][ \A p \in Pos :
           (PointerMove(p) /\ selection # <<>> /\ p \in Range(selection))
           => selection' = selection ]_vars

\* C14 (amended): extending an active selection with a cell already present
\* in the path, other than its second-to-last entry, leaves the path unchanged.
C14_PresentCellNotBacktrackIsNoOp ==
    [][ \A p \in Pos :
           ( /\ PointerMove(p) /\ selection # <<>>
             /\ p \in Range(selection) /\ ~IsBacktrack(selection, p) )
           => selection' = selection ]_vars

\* C14 witness: _tryExtendPath was called with a cell of a path of two or more
\* cells that is not the second-to-last one, and the path is as it was
C14_Witness ==
    /\ dragActive
    /\ Len(extended.path) >= 2
    /\ extended.cell \in Range(extended.path)
    /\ ~IsBacktrack(extended.path, extended.cell)
    /\ selection = extended.path

\* C15: extending an active selection of n >= 2 cells with its
\* second-to-last entry leaves exactly the first n-1 entries, and the
\* gesture goes on.
C15_BacktrackPopsLast ==
    [][ \A p \in Pos :
           (PointerMove(p) /\ IsBacktrack(selection, p))
           => /\ selection' = SubSeq(selection, 1, Len(selection) - 1)
              /\ selection' # <<>>
              /\ dragActive' /\ isPointerDown' = isPointerDown ]_vars

\* C15 witness: a path of three cells was extended with its second entry and
\* is now its own prefix of two cells
C15_Witness ==
    /\ dragActive
    /\ Len(extended.path) = 3
    /\ extended.cell = extended.path[2]
    /\ selection = SubSeq(extended.path, 1, 2)

\* C16: extending with a cell that is 4-adjacent to no cell of the path
\* leaves the path unchanged; a non-null, value-compatible cell that is not in
\* the path and is 4-adjacent to at least one cell of it is appended at the end.
C16_AdjacentToAny ==
    [][ \A p \in Pos :
           (PointerMove(p) /\ selection # <<>>)
           => LET adjacentToAny ==
                     \E i \in 1 .. Len(selection) : IsAdjacent(selection[i], p)
              IN  /\ ~adjacentToAny => selection' = selection
                  /\ ( /\ adjacentToAny
                       /\ p \notin Range(selection)
                       /\ cells[p] # null
                       /\ Compatible(cells[selection[1]], cells[p]) )
                     => selection' = Append(selection, p) ]_vars

\* C16 witness: a cell that does not touch the last cell of the path, only an
\* earlier one, was appended
C16_Witness ==
    /\ dragActive
    /\ Len(extended.path) >= 2
    /\ ~IsAdjacent(extended.path[Len(extended.path)], extended.cell)
    /\ selection = Append(extended.path, extended.cell)

\* C17: a candidate is appended only if it is non-null and its value equals
\* the value of the path's first cell or both are in {5, 10}; a candidate that
\* is null or has any other value leaves the path unchanged.
C17_ValueCompatibility ==
    [][ \A p \in Pos :
           (PointerMove(p) /\ selection # <<>>)
           => LET ok == /\ cells[p] # null
                        /\ Compatible(cells[selection[1]], cells[p])
              IN  /\ selection' = Append(selection, p) => ok
                  /\ ~ok => selection' = selection ]_vars

\* C17 witness: a non-null cell next to the path, not in it, was refused for
\* its value alone
C17_Witness ==
    /\ dragActive
    /\ extended.path # <<>>
    /\ extended.cell \notin Range(extended.path)
    /\ \E i \in 1 .. Len(extended.path) :
          IsAdjacent(extended.path[i], extended.cell)
    /\ extended.cand # null /\ extended.base # null
    /\ ~Compatible(extended.base, extended.cand)
    /\ selection = extended.path

\* C18: in every reachable state the selection path repeats no (row, col)
\* pair and every entry after the first is 4-adjacent to an earlier entry.
C18_PathLegal ==
    /\ \A i, j \in 1 .. Len(selection) : selection[i] = selection[j] => i = j
    /\ \A i \in 2 .. Len(selection) :
          \E j \in 1 .. i - 1 : IsAdjacent(selection[j], selection[i])

\* C18 witness: a gesture has grown a path of three cells whose last cell
\* touches the first cell of the path and not the second
C18_Witness ==
    /\ dragActive
    /\ Len(selection) = 3
    /\ selection = Append(extended.path, extended.cell)
    /\ IsAdjacent(selection[1], selection[3])
    /\ ~IsAdjacent(selection[2], selection[3])

\* the cells of S that can be reached from the cells of R by 4-adjacent
\* steps inside S
RECURSIVE Closure(_, _)
Closure(R, S) ==
    LET R2 == R \cup { n \in S : \E q \in R : IsAdjacent(q, n) }
    IN  IF R2 = R THEN R ELSE Closure(R2, S)

\* S is 4-connected
Connected(S) == S = {} \/ Closure({CHOOSE x \in S : TRUE}, S) = S

\* C19: the groups _findGroups returns partition the non-null cells: every
\* non-null cell is listed exactly once, in exactly one group; no null cell is
\* listed; and every group is a non-empty, 4-connected set of cells holding the
\* group's value that no adjacent cell of the same value is left out of.
C19_GroupsPartition ==
    loopPc = "found"
    => LET P == CellsOf(gridRows, gridCols)
           places(p) == { <<i, k>> \in (1 .. Len(groups)) \X (1 .. gridRows * gridCols) :
                            k <= Len(groups[i].cells) /\ groups[i].cells[k] = p }
       IN  /\ \A p \in P : Cardinality(places(p)) = IF board[p] = null THEN 0 ELSE 1
           /\ \A i \in 1 .. Len(groups) :
                 LET S == Range(groups[i].cells)
                 IN  /\ S # {} /\ S \subseteq P
                     /\ \A q \in S : board[q] = groups[i].value
                     /\ Connected(S)
                     /\ \A q \in S : \A n \in P \ S :
                           IsAdjacent(q, n) => board[n] # groups[i].value

\* C19 witness: on a 3x3 grid holding a plus of 5s, a 1 in one corner and
\* null elsewhere, the search returned one group of five cells and one of one
C19_Witness ==
    /\ loopPc = "found"
    /\ gridRows = 3 /\ gridCols = 3
    /\ \A p \in { <<0, 1>>, <<1, 0>>, <<1, 1>>, <<1, 2>>, <<2, 1>> } : board[p] = 5
    /\ board[<<0, 0>>] = 1
    /\ \A p \in { <<0, 2>>, <<2, 0>>, <<2, 2>> } : board[p] = null
    /\ Len(groups) = 2
    /\ \E i \in 1 .. 2 : groups[i].value = 5 /\ Len(groups[i].cells) = 5
    /\ \E i \in 1 .. 2 : groups[i].value = 1 /\ groups[i].cells = << <<0, 0>> >>

\* the next denomination strictly greater than v when v is a denomination
\* (the largest one when there is none greater), else v itself
Promoted(v) ==
    LET greater == { w \in Range(values) : w > v }
        largest == CHOOSE w \in Range(values) : \A u \in Range(values) : u <= w
    IN  IF v \notin Range(values) THEN v
        ELSE IF greater = {} THEN largest
        ELSE CHOOSE w \in greater : \A u \in greater : w <= u

\* C20: when the cascade applies a qualifying group, the group's
\* last-enumerated cell takes the next denomination above the group's value
\* (capped at the largest) and no other cell is touched by the application;
\* after the wait every other member is null and the target still holds that
\* value when the collapse reads the grid.
C20_CascadeAppliesGroup ==
    [][ /\ (loopPc # "wait" /\ loopPc' = "wait")
           => LET grp == Head(mergeQueue')
                  t   == grp.cells[Len(grp.cells)]
              IN  /\ Len(grp.cells) >= minCollectLen
                  /\ board'[t] = Promoted(grp.value)
                  /\ \A q \in DOMAIN board \ {t} :
                        \/ board'[q] = board[q]
                        \/ q \in animations.pending /\ board'[q] = animations.vals[q]
        /\ FadeTimerFire
           => LET grp == Head(mergeQueue)
                  t   == grp.cells[Len(grp.cells)]
              IN  /\ animations'.srcVals[t] = Promoted(grp.value)
                  /\ \A q \in DOMAIN board \ {t} :
                        animations'.srcVals[q] =
                           IF q \in Range(grp.cells) THEN null ELSE board[q] ]_vars

\* C20 witness: a group of three 10s was applied: the collapse that followed
\* read 25 in the group's last-enumerated cell and null in the two others
C20_Witness ==
    /\ loopPc = "collapse"
    /\ LET grp == Head(mergeQueue)
           t   == grp.cells[Len(grp.cells)]
       IN  /\ grp.value = 10
           /\ Len(grp.cells) = 3
           /\ animations.srcVals[t] = 25
           /\ \A q \in Range(grp.cells) \ {t} : animations.srcVals[q] = null

\* a step in which the loop starts a pass that applies a group
PassStarts ==
    /\ loopPc' = "wait"
    /\ mergeQueue' = SelectSeq(groups', Qualifies)
    /\ ~MarkPass

\* C21 (as claimed): the auto-merge cascade terminates whatever the collapses
\* generate.  The draws of a collapse do not depend on the draws before it, so
\* a pass that starts on the grid and the groups an earlier pass of the same
\* cascade started on can be followed by that earlier pass's continuation
\* again and again: termination for every outcome of tile generation requires
\* that no pass starts where an earlier one did.
C21_CascadeTerminates ==
    [][ (mark.set /\ PassStarts)
        => ~(board' = mark.board /\ mergeQueue' = mark.queue) ]_vars

\* the promise-based grid is at rest after the cascade has finished: the loop
\* has exited, no collapse is running and no tap is on its way
AtRestAfterCascade ==
    /\ loopPc = "done"
    /\ animations.pending = {}
    /\ TapAtRest

\* C22 (as claimed): with auto-merge enabled, whenever the grid is at rest
\* after the cascade has finished, no two 4-adjacent cells are both non-null
\* and hold the same value.
C22_NoAdjacentEqualAtRest ==
    AtRestAfterCascade
    => \A p, q \in CellsOf(gridRows, gridCols) :
          (IsAdjacent(p, q) /\ board[p] # null) => board[p] # board[q]

\* the largest configured denomination
MaxDenomination ==
    CHOOSE w \in Range(values) : \A u \in Range(values) : u <= w

\* C23 (as claimed): a tap on a cell holding the largest configured
\* denomination adds that value to the score and clears that cell (and no
\* other) in the same step; a tap on any other cell changes neither the score
\* nor a cell.
C23_JackpotTap ==
    [][ \A p \in CellsOf(gridRows, gridCols) :
           Tap(p)
           => IF board[p] = MaxDenomination
              THEN /\ score' = score + MaxDenomination
                   /\ board' = [board EXCEPT ![p] = null]
              ELSE /\ score' = score
                   /\ board' = board ]_vars

\* C24 (as claimed): once the grid has been torn down, no step changes a
\* cell value or the score: no settle-operation commits and no deferred
\* callback clears a cell.
C24_NothingChangesAfterTeardown ==
    [][ destroyCalls >= 1 => (cells' = cells /\ score' = score) ]_vars

\* C25: a call of destroy on a grid already torn down leaves the lifecycle
\* subject, the input subscriptions, the running streams and timers, the cell
\* values and the score as they are.
C25_DestroyIsIdempotent ==
    [][ (Destroy /\ destroyCalls >= 1)
        => UNCHANGED <<destroySubject, inputSubs, dragActive, collapses, timers,
                       cells, score>> ]_vars

\* C25 witness: destroy was called a second time while the timer of a merge
\* accepted before the teardown was still pending
C25_Witness ==
    /\ destroyCalls = 2
    /\ inputSubs = "null"
    /\ destroySubject = "null"
    /\ released.kind = "accepted"
    /\ timers # <<>>

\* nothing is left to run on a grid that was not torn down: no timer is
\* pending, and the settle-operations still pending are those whose tween was
\* killed
Stalled ==
    /\ destroySubject = "open"
    /\ timers = <<>>
    /\ collapses # <<>>
    /\ \A i \in 1 .. Len(collapses) :
          collapses[i].pending \subseteq collapses[i].dead

\* C26 (as claimed): when a settle-operation's animation was cancelled and
\* everything else has run to its end, the grid is not left with interaction
\* disabled.
C26_KilledTweenDoesNotBlock == Stalled => interactive

\* the step is an accepted merge that adds its positive resultValue
MergeAwarded ==
    /\ ReleaseHandled
    /\ released'.kind = "accepted"
    /\ released'.resultValue \in Nat \ {0}
    /\ score' = score + released'.resultValue

\* the step is an accepted tap that adds the positive value it collects
TapAwarded ==
    \E p \in CellsOf(gridRows, gridCols) :
        Tap(p) /\ tapped'.phase = "fade" /\ gold > 0 /\ score' = score + gold

\* C27: the score starts at 0 and a step that changes it is an accepted
\* merge or an accepted tap that adds the positive awarded value; the score
\* never decreases.
C27_ScoreOnlyGrows ==
    /\ score = 0
    /\ [][ /\ score' # score => (MergeAwarded \/ TapAwarded)
           /\ score' >= score ]_vars

\* C27 witness: two merges have been accepted, the score is the sum of what
\* they awarded
C27_Witness ==
    /\ released.kind = "accepted"
    /\ score > released.resultValue
    /\ released.resultValue > 0

\* C28 (as claimed): immediately after a release has been handled the
\* selection path is empty, whether it was accepted, rejected or too short.
C28_ReleaseClearsPath ==
    [][ ReleaseHandled => selection' = <<>> ]_vars

\* C28 (amended): immediately after a release has been handled the selection
\* path is empty when the release was rejected or too short; an accepted
\* release leaves the path as it was, and the path is emptied when a
\* collapse completes.
C28_ReleaseClearsRejectedPath ==
    [][ /\ ReleaseHandled
           => IF released'.kind = "accepted"
              THEN selection' = selection /\ Len(selection') >= minCollectLen
              ELSE selection' = <<>>
        /\ CollapseCompletes => selection' = <<>> ]_vars

\* C28 witness: an accepted release has been handled, its path is still
\* selected and its deferred clearing is pending
C28_Witness ==
    /\ released.kind = "accepted"
    /\ ~isPointerDown
    /\ Len(selection) >= minCollectLen
    /\ PathVals(selection)[Len(selection)] = released.resultValue
    /\ timers # <<>>

\* C29 (as claimed): a pointer-down on a cell whose value is null, or while
\* a gesture is already selecting, neither starts nor replaces a selection:
\* the path stays as it was.
C29_BeginOnlyFromEmptyOnNonNull ==
    [][ \A p \in Pos :
           (PointerDown(p) /\ (cells[p] = null \/ isPointerDown))
           => selection' = selection ]_vars

\* the settle-operations of the collapse the step has started that move a
\* surviving tile: destination -> row of its source cell
MovesStarted ==
    LET started == collapses'[Len(collapses')]
    IN  [p \in { q \in DOMAIN started.ops :
                    /\ ~started.ops[q].generated
                    /\ started.ops[q].src # q[1] } |-> started.ops[p].src]

\* C30 (as claimed): when a collapse starts the move of a surviving tile,
\* the source cell is null right after that step and the destination cell
\* has not received the moved value by that step: it holds what it held, or
\* null when the step cleared it.
C30_SourceClearedDestinationDeferred ==
    [][ (CollapseStarts /\ Len(collapses') > Len(collapses))
        => \A p \in DOMAIN MovesStarted :
              /\ cells'[<<MovesStarted[p], p[2]>>] = null
              /\ cells'[p] \in {cells[p], null} ]_vars

\* the step completes a collapse of the promise-based grid and leaves the
\* grid at rest: nothing pending, no pass under way, interaction enabled
CollapseSettlesToRest ==
    /\ animations.pending # {}
    /\ animations'.pending = {}
    /\ loopPc' \in {"idle", "done"}
    /\ interactive'

\* C31 (as claimed): with auto-merge enabled, a step that completes a
\* collapse and leaves the grid at rest has run the group search on the
\* settled grid: the groups found are those of the grid it leaves, and none
\* of them qualifies.
C31_CascadeAfterEveryCollapse ==
    [][ CollapseSettlesToRest
        => /\ groups' = FindGroups(board', gridRows, gridCols)
           /\ SelectSeq(groups', Qualifies) = <<>> ]_vars

\* the step takes the next group of the running pass: its target is upgraded
NextGroupTaken == loopPc = "collapse" /\ loopPc' = "wait" /\ mergeQueue' = Tail(mergeQueue)

\* C32: within a pass of the cascade the groups are applied one at a time:
\* the next group of the pass is taken only by the step that completes the
\* last pending tween of the collapse before it, and when the members of a
\* group are cleared and its collapse starts no tween of the cascade is
\* pending.
C32_GroupsAppliedSequentially ==
    [][ /\ NextGroupTaken => (animations.pending # {} /\ animations'.pending = {})
        /\ FadeTimerFire => animations.pending = {} ]_vars

\* C32 witness: a pass found two qualifying groups; the first has been cleared
\* and collapsed, its collapse is complete, and the second has been taken
C32_Witness ==
    /\ loopPc = "wait"
    /\ Len(SelectSeq(groups, Qualifies)) = 2
    /\ mergeQueue = Tail(SelectSeq(groups, Qualifies))
    /\ animations.pending = {}
    /\ board[GroupTarget(Head(mergeQueue))] = NextVal(Head(mergeQueue).value)

\* C33 (as claimed): at most one collapse is in flight at any time: no
\* collapse is started while settle-operations of an earlier one are pending.
C33_OneCollapseInFlight == Len(collapses) <= 1

\* C34 (as claimed): when the cascade takes the next group of a pass, every
\* member cell of that group holds the group's value on the grid the collapse
\* before it has settled (the cells are fixed places, so members that all
\* hold the value are connected as they were when the group was found).
C34_GroupStillValidWhenApplied ==
    [][ \A p \in CellsOf(gridRows, gridCols) :
           (AnimationComplete(p) /\ NextGroupTaken)
           => LET settledBoard == [board EXCEPT ![p] = animations.vals[p]]
                  grp          == Head(mergeQueue')
              IN  \A i \in 1 .. Len(grp.cells) :
                     settledBoard[grp.cells[i]] = grp.value ]_vars

\* the state the resolution of a merge ends in: interaction enabled, no path
\* selected, no settle-operation pending and every cell holding a value
Resolved ==
    /\ interactive
    /\ selection = <<>>
    /\ collapses = <<>>
    /\ \A p \in Pos : cells[p] # null

C36_DragPathIsItsOwn ==
    [][ ( /\ isPointerDown
          /\ dragActive
          /\ \/ TimerFire
             \/ \E i \in 1 .. MaxInFlight : \E p \in Pos : SettleComplete(i, p) )
        => selection' = selection ]_vars

\* C37: a pointer-down or a pointer-move changes no cell value and leaves
\* the score as it is.
C37_PointerDownAndMoveFrame ==
    [][ (\E p \in Pos : PointerDown(p) \/ PointerMove(p))
        => (cells' = cells /\ score' = score) ]_vars

\* C37 witness: on a grid that holds two adjacent cells whose merge would be
\* accepted, a further pointer-down arrived before any pointer-up: the
\* stream of the gesture was dropped and the one-cell path of the new
\* pointer-down released as too short
C37_Witness ==
    /\ dragActive
    /\ ~isPointerDown
    /\ selection = <<>>
    /\ released.kind = "short"
    /\ Len(released.vals) = 1
    /\ \E p, q \in Pos :
          /\ IsAdjacent(p, q)
          /\ ResultValue(<<cells[p], cells[q]>>, values) # null

CascadeStep ==
    \/ AutoMergeLoopCall
    \/ FadeTimerFire
    \/ \E p \in CellsOf(gridRows, gridCols) : AnimationComplete(p)

\* C39: no step of the auto-merge cascade changes the score.
C39_CascadeKeepsScore == [][ CascadeStep => score' = score ]_vars

\* C39 witness: the cascade has run to its end and has merged tiles up to
\* the largest denomination, which no grid is built with; no tap was made
\* and the score is what it was when the loop was called
C39_Witness ==
    /\ loopPc = "done"
    /\ tapped = NoTap
    /\ \E p \in CellsOf(gridRows, gridCols) : board[p] = MaxDenomination
    /\ score = 0

\* C40 (as claimed): with weights of the length of values and of positive
\* sum, a pick for a draw r in [0,1) (a draw up to the sum of the weights, in
\* their unit) returns a value whose weight is not zero.
C40_ZeroWeightNeverPicked ==
    ( /\ draw >= 0
      /\ draw <= SumW(weights)
      /\ WeightsMatch
      /\ SeqSum(weights) > 0 )
    => weights[FindIndex(values, picked)] > 0

====
